---- MODULE Spec2Model ----
(***************************************************************************)
(* A model of the self messaging client (src/client.go and the request    *)
(* cache): one Client, its Reader and Writer goroutines, the goroutines   *)
(* of callers of Send, Receive, Close and of the JWS waiters, and the      *)
(* messaging server as the environment.  Every step is one access to the  *)
(* state the goroutines share: the closed flag, the socket c.ws, the       *)
(* channels send, recv and closewriter, and the two request tables.        *)
(***************************************************************************)
EXTENDS Integers, Sequences, FiniteSets, TLC

(* ------------------------------ bounds -------------------------------- *)

\* Goroutines that call Send, one call each.
NumCallers == 2
\* Request ids the callers draw from.
NumIds == 2
\* c.maxretries as configured for checking (DefaultRetries is 30).
MaxRetries == 2
\* Sessions the server accepts: the first one and the reconnects.
MaxSessions == 2
\* Capacity of c.send (option SendBuffer).
SendCap == 1
\* Capacity of c.recv (option ReceiveBuffer).
RecvCap == 1
\* Frames in flight from the server to the client.
MaxNet == 2
\* Unsolicited MSG frames the server pushes.
MaxPush == 2
\* Calls of Close() made by the application.
MaxCloses == 2

Callers == 1..NumCallers
Ids == 1..NumIds
Sessions == 1..MaxSessions
\* The one id the JWS waiter registers in the nested table.
JwsId == 1
\* No id: the empty string of the source, and "no channel" in a table.
None == 0

(* ------------------------------ frames -------------------------------- *)

\* A ciphertext as getJWSResponseID sees it: whether it holds a "payload"
\* member, whether that member is base64url, and the "cid" of the decoded
\* payload (None when it has none).
NoCt == [payload |-> "none", cid |-> None]

CipherTexts ==
    { NoCt,
      [payload |-> "bad", cid |-> JwsId],
      [payload |-> "ok", cid |-> None],
      [payload |-> "ok", cid |-> JwsId] }

\* A Notification as the server sends it in answer to the request of caller
\* c: req is not on the wire, it records whose request the frame answers.
Notification(t, id, c) == [type |-> t, id |-> id, ct |-> NoCt, req |-> c]

Message(n, ct) == [type |-> "MSG", id |-> n, ct |-> ct, req |-> None]

\* Frames the Reader has no use for: one whose header does not decode, one of
\* a known type whose body does not decode, and one whose header names a type
\* the Reader's switch has no case for.
JunkTypes == {"GARBLED", "BADBODY", "OTHER"}

Junk(k) == [type |-> k, id |-> None, ct |-> NoCt, req |-> None]

\* utils.go: "" when there is no payload member or it does not decode, else
\* the cid member of the decoded payload ("" when absent).
getJWSResponseID(ct) ==
    IF ct.payload = "none" THEN None
    ELSE IF ct.payload = "bad" THEN None
    ELSE ct.cid

\* The errors ReadMessage returns, by what tryReconnect's type switch sees.
ErrKinds == {"timeout", "neterr", "abnormal", "normalclose", "other"}

(* ------------------------------ state --------------------------------- *)

VARIABLES
    reconnect,    \* c.reconnect
    closed,       \* c.closed
    wsOpen,       \* c.ws has not been closed by c.ws.Close()
    sessions,     \* sessions established so far (handshakes ACKed)
    net,          \* frames the server has sent on c.ws, not yet read
    wire,         \* callers whose request is written on c.ws, not yet answered
    send,         \* c.send: the callers whose request is queued
    recv,         \* c.recv: the inbox
    requests,     \* direct table: id -> the caller whose channel is registered
    chans,        \* the channel each caller's register made (capacity 1)
    jwsrequests,  \* nested table: the ids with a registered waiter
    jchan,        \* the JWS waiter's channel (capacity 1)
    pcR,          \* Reader goroutine of each session
    rframe,       \* the frame the Reader holds while it is blocked
    rerr,         \* the error the Reader's read failed with
    retries,      \* i of tryReconnect's loop
    pcW,          \* Writer goroutine of each session
    pcC,          \* callers of Send
    reqId,        \* the message id of each caller
    waitCh,       \* the channel wait() read from the table
    res,          \* what each Send returned
    got,          \* the Notification each Send was resolved by
    pcX,          \* the goroutine that calls Close()
    closes,       \* calls of Close() that have returned
    pcV,          \* the goroutine that calls Receive()
    received,     \* the messages Receive() has returned, in order
    pcJ,          \* the JWS waiter
    jres,         \* what JWSResponse returned
    pushes,       \* MSG frames the server has pushed
    arrived,      \* the MSG frames the Reader has read, in order
    nested,       \* ids of the MSG frames handed to the nested waiter
    option        \* the AutoReconnect option New was given, if any

sockVars == <<wsOpen, net, wire>>
cacheVars == <<requests, chans>>
jwsVars == <<jwsrequests, jchan>>
readerVars == <<pcR, rframe, rerr, retries>>
callerVars == <<pcC, reqId, waitCh, res, got>>
closerVars == <<pcX, closes>>
recvrVars == <<pcV, received>>
jVars == <<pcJ, jres>>
histVars == <<arrived, nested, option>>

vars == <<reconnect, closed, sessions, sockVars, send, recv, cacheVars,
          jwsVars, readerVars, pcW, callerVars, closerVars, recvrVars,
          jVars, pushes, histVars>>

NoFrame == [type |-> "none", id |-> None, ct |-> NoCt, req |-> None]

\* The ways New is given the AutoReconnect option: not at all, or with its
\* argument false or true.
Options == {"absent", "false", "true"}

\* options.go 27-33: what AutoReconnect(enabled) stores in c.reconnect.
AutoReconnect(enabled) == TRUE

\* New: the client after its options have run and a successful first
\* setup().
Init ==
    /\ option \in Options
    /\ reconnect = IF option = "absent" THEN FALSE
                   ELSE AutoReconnect(option = "true")
    /\ closed = 0
    /\ wsOpen = TRUE
    /\ sessions = 1
    /\ net = <<>>
    /\ wire = {}
    /\ send = <<>>
    /\ recv = <<>>
    /\ requests = [i \in Ids |-> None]
    /\ chans = [c \in Callers |-> <<>>]
    /\ jwsrequests = {}
    /\ jchan = <<>>
    /\ pcR = [s \in Sessions |-> IF s = 1 THEN "top" ELSE "none"]
    /\ rframe = NoFrame
    /\ rerr = "none"
    /\ retries = 0
    /\ pcW = [s \in Sessions |-> IF s = 1 THEN "top" ELSE "none"]
    /\ pcC = [c \in Callers |-> "idle"]
    /\ reqId = [c \in Callers |-> None]
    /\ waitCh = [c \in Callers |-> None]
    /\ res = [c \in Callers |-> "none"]
    /\ got = [c \in Callers |-> NoFrame]
    /\ pcX = "idle"
    /\ closes = 0
    /\ pcV = "idle"
    /\ received = <<>>
    /\ pcJ = "idle"
    /\ jres = "none"
    /\ pushes = 0
    /\ arrived = <<>>
    /\ nested = {}

\* client.go: IsClosed.
IsClosed == closed # 0

\* The table's lock is held across a step only by a send blocked on a full
\* channel (request_cache.go: ch <- m between Lock and Unlock).
muHeld == \E s \in Sessions : pcR[s] = "cacheSend"

jmuHeld == \E s \in Sessions : pcR[s] = "jwsSend"

(* --------------------------- request tables --------------------------- *)

\* A lookup that ignores the id and takes the first waiter of the table.
LookupFirst(id) ==
    IF \E i \in Ids : requests[i] # None
    THEN requests[CHOOSE i \in Ids : requests[i] # None]
    ELSE None

\* request_cache.go 25: ch, ok := rc.requests[reqID].
Lookup(id) == requests[id]

Registered(id) == Lookup(id) # None

\* Send can hand m over at once: the waiter's channel has room.
CanDeliver(id) == Registered(id) /\ chans[Lookup(id)] = <<>>

\* Send blocks on ch <- m, holding the lock: the channel is full.
SendBlocks(id) == Registered(id) /\ chans[Lookup(id)] # <<>>

\* A send that puts m on the channel of whichever entry comes first.
DeliverToAny(id, f) == chans' = [chans EXCEPT ![LookupFirst(id)] = <<f>>]

\* request_cache.go 27: ch <- m.
Deliver(id, f) == chans' = [chans EXCEPT ![Lookup(id)] = <<f>>]

\* sendJWS, the nested table's Send: what it reports to the Reader after a
\* lookup that found a waiter (delivered) or none.
sendJWSReturn(delivered) == FALSE

(* ------------------------------- Reader ------------------------------- *)

SetR(s, loc) == pcR' = [pcR EXCEPT ![s] = loc]

\* client.go 225-228: the loop's top.
ReaderTop(s) ==
    /\ pcR[s] = "top"
    /\ SetR(s, IF IsClosed THEN "done" ELSE "read")
    /\ UNCHANGED <<reconnect, closed, sessions, sockVars, send, recv,
                   cacheVars, jwsVars, rframe, rerr, retries, pcW,
                   callerVars, closerVars, recvrVars, jVars, pushes,
                   histVars>>

\* A put that drops the message when the inbox is full.
RecvPutOrDrop(s, f) ==
    /\ recv' = IF Len(recv) < RecvCap THEN Append(recv, f) ELSE recv
    /\ SetR(s, "top")
    /\ rframe' = NoFrame

\* client.go 268: c.recv <- msg, which blocks while the inbox is full.
RecvPut(s, f) ==
    IF Len(recv) < RecvCap
    THEN /\ recv' = Append(recv, f)
         /\ SetR(s, "top")
         /\ rframe' = NoFrame
    ELSE /\ recv' = recv
         /\ SetR(s, "recvPut")
         /\ rframe' = f

\* client.go 230, 251-252, 261-262: an ACK or ERR is read and handed to the
\* direct table under the frame's id.
ReaderNotification(s) ==
    /\ pcR[s] = "read"
    /\ net # <<>>
    /\ Head(net).type \in {"ACK", "ERR"}
    /\ net' = Tail(net)
    /\ LET f == Head(net) IN
         IF CanDeliver(f.id)
         THEN Deliver(f.id, f) /\ SetR(s, "top") /\ rframe' = NoFrame
         ELSE IF SendBlocks(f.id)
         THEN chans' = chans /\ SetR(s, "cacheSend") /\ rframe' = f
         ELSE chans' = chans /\ SetR(s, "top") /\ rframe' = NoFrame
    /\ UNCHANGED <<reconnect, closed, sessions, wsOpen, wire, send, recv,
                   requests, jwsVars, rerr, retries, pcW, callerVars,
                   closerVars, recvrVars, jVars, pushes, histVars>>

\* request_cache.go 27: the blocked ch <- m completes once the channel has
\* been emptied, and the lock is released.
ReaderCacheSend(s) ==
    /\ pcR[s] = "cacheSend"
    /\ Registered(rframe.id)
    /\ CanDeliver(rframe.id)
    /\ Deliver(rframe.id, rframe)
    /\ SetR(s, "top")
    /\ rframe' = NoFrame
    /\ UNCHANGED <<reconnect, closed, sessions, sockVars, send, recv,
                   requests, jwsVars, rerr, retries, pcW, callerVars,
                   closerVars, recvrVars, jVars, pushes, histVars>>

\* client.go 230, 247-248, 263-269: a MSG is read, offered to the nested
\* table under the cid of its ciphertext, and put on the inbox unless sendJWS
\* said it was delivered.
ReaderMessage(s) ==
    /\ pcR[s] = "read"
    /\ net # <<>>
    /\ Head(net).type = "MSG"
    /\ net' = Tail(net)
    /\ LET f == Head(net)
           msgID == getJWSResponseID(f.ct)
       IN /\ arrived' = Append(arrived, f)
          /\ IF msgID \in jwsrequests /\ jchan # <<>>
             THEN /\ SetR(s, "jwsSend")
                  /\ rframe' = f
                  /\ UNCHANGED <<recv, jchan, nested>>
             ELSE IF msgID \in jwsrequests
             THEN /\ jchan' = <<f>>
                  /\ nested' = nested \cup {f.id}
                  /\ IF sendJWSReturn(TRUE)
                     THEN SetR(s, "top") /\ rframe' = NoFrame /\ recv' = recv
                     ELSE RecvPut(s, f)
             ELSE /\ UNCHANGED <<jchan, nested>>
                  /\ IF sendJWSReturn(FALSE)
                     THEN SetR(s, "top") /\ rframe' = NoFrame /\ recv' = recv
                     ELSE RecvPut(s, f)
    /\ UNCHANGED <<reconnect, closed, sessions, wsOpen, wire, send,
                   cacheVars, jwsrequests, rerr, retries, pcW, callerVars,
                   closerVars, recvrVars, jVars, pushes, option>>

\* The nested table's blocked ch <- m completes; the Reader goes on to the
\* inbox as sendJWS's result tells it.
ReaderJwsSend(s) ==
    /\ pcR[s] = "jwsSend"
    /\ jchan = <<>>
    /\ jchan' = <<rframe>>
    /\ nested' = nested \cup {rframe.id}
    /\ IF sendJWSReturn(TRUE)
       THEN SetR(s, "top") /\ rframe' = NoFrame /\ recv' = recv
       ELSE RecvPut(s, rframe)
    /\ UNCHANGED <<reconnect, closed, sessions, sockVars, send, cacheVars,
                   jwsrequests, rerr, retries, pcW, callerVars, closerVars,
                   recvrVars, jVars, pushes, arrived,
                   option>>

\* client.go 268: the blocked c.recv <- msg completes.
ReaderRecvPut(s) ==
    /\ pcR[s] = "recvPut"
    /\ Len(recv) < RecvCap
    /\ recv' = Append(recv, rframe)
    /\ SetR(s, "top")
    /\ rframe' = NoFrame
    /\ UNCHANGED <<reconnect, closed, sessions, sockVars, send, cacheVars,
                   jwsVars, rerr, retries, pcW, callerVars, closerVars,
                   recvrVars, jVars, pushes, histVars>>

\* client.go 255 with m the nil interface (no case of the switch at 246-253
\* has set it): proto.Unmarshal(data, nil) calls a method of the nil
\* Message and panics, unless the library returns before it does.
UnmarshalNil == {"panic", "err"}

\* client.go 239-258: the outcomes of the Reader's two decodes of a frame of
\* kind k.
Decodes(k) == IF k = "OTHER" THEN UnmarshalNil ELSE {"err"}

\* client.go 230, 237-258: a frame the Reader has no use for is read; on a
\* decode error the loop continues.
ReaderJunk(s) ==
    /\ pcR[s] = "read"
    /\ net # <<>>
    /\ Head(net).type \in JunkTypes
    /\ net' = Tail(net)
    /\ \E o \in Decodes(Head(net).type) :
         SetR(s, IF o = "panic" THEN "panic" ELSE "top")
    /\ UNCHANGED <<reconnect, closed, sessions, wsOpen, wire, send, recv,
                   cacheVars, jwsVars, rframe, rerr, retries, pcW,
                   callerVars, closerVars, recvrVars, jVars, pushes,
                   histVars>>

\* The errors a read of c.ws can fail with: any once the socket is open,
\* and "use of closed connection" (a net.Error, no timeout) once it has
\* been closed by c.ws.Close().
ReadErrors == IF wsOpen THEN ErrKinds ELSE {"neterr"}

\* client.go 230-232: the read fails; close() follows.
ReaderReadFails(s) ==
    /\ pcR[s] = "read"
    /\ \E e \in ReadErrors : rerr' = e
    /\ SetR(s, "close")
    /\ UNCHANGED <<reconnect, closed, sessions, sockVars, send, recv,
                   cacheVars, jwsVars, rframe, retries, pcW, callerVars,
                   closerVars, recvrVars, jVars, pushes, histVars>>

\* client.go 113-125: the errors tryReconnect goes on to retry for.
Retries(e) ==
    CASE e = "timeout" -> TRUE
      [] e = "neterr" -> FALSE
      [] e = "abnormal" -> TRUE
      [] e = "normalclose" -> FALSE
      [] OTHER -> TRUE

\* A loop test that lets one attempt too many through.
MoreAttemptsOff(i) == i <= MaxRetries

\* client.go 127: the loop's test, i < c.maxretries.
MoreAttempts(i) == i < MaxRetries

\* client.go 108-127, 233-234: tryReconnect(err) up to the loop's first
\* test: the Reader goes on to setup() or returns.
TryReconnect(e) ==
    IF reconnect /\ Retries(e) /\ MoreAttempts(0) THEN "setup" ELSE "done"

\* client.go 502-504, 233: close() returns at once when the flag is set, and
\* tryReconnect follows.
ReaderCloseCheck(s) ==
    /\ pcR[s] = "close"
    /\ SetR(s, IF IsClosed THEN TryReconnect(rerr) ELSE "closeSet")
    /\ rerr' = IF IsClosed THEN "none" ELSE rerr
    /\ retries' = IF IsClosed THEN 0 ELSE retries
    /\ UNCHANGED <<reconnect, closed, sessions, sockVars, send, recv,
                   cacheVars, jwsVars, rframe, pcW, callerVars, closerVars,
                   recvrVars, jVars, pushes, histVars>>

\* client.go 506: the flag is set; Close() follows.
ReaderCloseSet(s) ==
    /\ pcR[s] = "closeSet"
    /\ closed' = 1
    /\ SetR(s, "closeSend")
    /\ UNCHANGED <<reconnect, sessions, sockVars, send, recv, cacheVars,
                   jwsVars, rframe, rerr, retries, pcW, callerVars,
                   closerVars, recvrVars, jVars, pushes, histVars>>

\* client.go 498, 233: c.ws.Close(), after Close()'s send on closewriter;
\* tryReconnect follows.
ReaderWsClose(s) ==
    /\ pcR[s] = "wsClose"
    /\ wsOpen' = FALSE
    /\ SetR(s, TryReconnect(rerr))
    /\ rerr' = "none"
    /\ retries' = 0
    /\ UNCHANGED <<reconnect, closed, sessions, net, wire, send, recv,
                   cacheVars, jwsVars, rframe, pcW, callerVars, closerVars,
                   recvrVars, jVars, pushes, histVars>>

\* client.go 85: setup() clears the flag first.
ReaderSetup(s) ==
    /\ pcR[s] = "setup"
    /\ closed' = 0
    /\ SetR(s, "dial")
    /\ UNCHANGED <<reconnect, sessions, sockVars, send, recv, cacheVars,
                   jwsVars, rframe, rerr, retries, pcW, callerVars,
                   closerVars, recvrVars, jVars, pushes, histVars>>

\* client.go 134-137: a failed attempt; the loop goes on or ends.
AttemptFailed(s) ==
    /\ retries' = retries + 1
    /\ SetR(s, IF MoreAttempts(retries + 1) THEN "setup" ELSE "done")

\* client.go 170-182: connect() dials; on success c.ws is the new socket.
ReaderDial(s) ==
    /\ pcR[s] = "dial"
    /\ \/ /\ wsOpen' = TRUE
          /\ net' = <<>>
          /\ wire' = {}
          /\ SetR(s, "auth")
          /\ retries' = retries
       \/ /\ AttemptFailed(s)
          /\ UNCHANGED sockVars
    /\ UNCHANGED <<reconnect, closed, sessions, send, recv, cacheVars,
                   jwsVars, rframe, rerr, pcW, callerVars, closerVars,
                   recvrVars, jVars, pushes, histVars>>

\* What the server can answer an AUTH with, by what authenticate()'s switch
\* sees: an ACK, an ERR, or a Notification of another type.
AuthReplies == {"ACK", "ERR", "OTHER"}

\* client.go 214-221: authenticate() returns nil for an ACK and an error for
\* every other reply.
authenticate(t) == t = "ACK"

\* client.go 184-202: authenticate() writes the AUTH frame on the new socket.
ReaderAuthWrite(s) ==
    /\ pcR[s] = "auth"
    /\ \/ /\ wsOpen
          /\ SetR(s, "authRead")
          /\ retries' = retries
       \/ AttemptFailed(s)
    /\ UNCHANGED <<reconnect, closed, sessions, sockVars, send, recv,
                   cacheVars, jwsVars, rframe, rerr, pcW, callerVars,
                   closerVars, recvrVars, jVars, pushes, histVars>>

\* client.go 204-221 and 102-103: authenticate() reads one frame; when it is
\* an ACK setup() starts the new session's Reader and Writer, and on any
\* other reply, or when the read fails, the attempt has failed.
ReaderAuth(s) ==
    /\ pcR[s] = "authRead"
    /\ \/ /\ net # <<>>
          /\ net' = Tail(net)
          /\ IF authenticate(Head(net).type)
             THEN /\ sessions' = sessions + 1
                  /\ pcR' = [pcR EXCEPT ![s] = "final", ![sessions + 1] = "top"]
                  /\ pcW' = [pcW EXCEPT ![sessions + 1] = "top"]
                  /\ retries' = retries
             ELSE /\ AttemptFailed(s)
                  /\ UNCHANGED <<sessions, pcW>>
       \/ /\ AttemptFailed(s)
          /\ UNCHANGED <<sessions, pcW, net>>
    /\ UNCHANGED <<reconnect, closed, wsOpen, wire, send, recv, cacheVars,
                   jwsVars, rframe, rerr, callerVars, closerVars,
                   recvrVars, jVars, pushes, histVars>>

\* client.go 132-133: after a successful setup() the flag is cleared again
\* and tryReconnect returns.
ReaderFinal(s) ==
    /\ pcR[s] = "final"
    /\ closed' = 0
    /\ SetR(s, "done")
    /\ UNCHANGED <<reconnect, sessions, sockVars, send, recv, cacheVars,
                   jwsVars, rframe, rerr, retries, pcW, callerVars,
                   closerVars, recvrVars, jVars, pushes, histVars>>

(* ------------------------------- Writer ------------------------------- *)

SetW(w, loc) == pcW' = [pcW EXCEPT ![w] = loc]

\* What a write on c.ws can return: nil or an error while the socket is
\* open, an error once it has been closed.
WriteResults == IF wsOpen THEN {TRUE, FALSE} ELSE {FALSE}

\* client.go 292-295: after the select, the loop goes on or close() is called.
AfterWrite(ok) == IF ok THEN "top" ELSE "close"

\* client.go 277-280: the loop's top.
WriterTop(w) ==
    /\ pcW[w] = "top"
    /\ SetW(w, IF IsClosed THEN "done" ELSE "select")
    /\ UNCHANGED <<reconnect, closed, sessions, sockVars, send, recv,
                   cacheVars, jwsVars, readerVars, callerVars, closerVars,
                   recvrVars, jVars, pushes, histVars>>

\* client.go 283-284 with 496: Close() called by the application hands over
\* on closewriter and the Writer writes the close frame.
WriterCloseFromCloser(w, ok) ==
    /\ pcW[w] = "select"
    /\ pcX = "send"
    /\ ok \in WriteResults
    /\ pcX' = "wsClose"
    /\ SetW(w, AfterWrite(ok))
    /\ UNCHANGED <<reconnect, closed, sessions, sockVars, send, recv,
                   cacheVars, jwsVars, readerVars, callerVars, closes,
                   recvrVars, jVars, pushes, histVars>>

\* client.go 283-284 with 508, 496: the Reader's close() hands over.
WriterCloseFromReader(w, r, ok) ==
    /\ pcW[w] = "select"
    /\ pcR[r] = "closeSend"
    /\ ok \in WriteResults
    /\ SetR(r, "wsClose")
    /\ SetW(w, AfterWrite(ok))
    /\ UNCHANGED <<reconnect, closed, sessions, sockVars, send, recv,
                   cacheVars, jwsVars, rframe, rerr, retries, callerVars,
                   closerVars, recvrVars, jVars, pushes, histVars>>

\* client.go 283-284 with 508, 496: another Writer's close() hands over.
WriterCloseFromWriter(w, v, ok) ==
    /\ w # v
    /\ pcW[w] = "select"
    /\ pcW[v] = "closeSend"
    /\ ok \in WriteResults
    /\ pcW' = [pcW EXCEPT ![w] = AfterWrite(ok), ![v] = "wsClose"]
    /\ UNCHANGED <<reconnect, closed, sessions, sockVars, send, recv,
                   cacheVars, jwsVars, readerVars, callerVars, closerVars,
                   recvrVars, jVars, pushes, histVars>>

\* client.go 285-287 with 420-423: a queued request is written and the
\* outcome handed to its caller, which goes on to wait() or returns the error.
WriterRequest(w, ok) ==
    /\ pcW[w] = "select"
    /\ send # <<>>
    /\ ok \in WriteResults
    /\ send' = Tail(send)
    /\ LET c == Head(send) IN
         /\ SetW(w, AfterWrite(ok))
         /\ wire' = IF ok THEN wire \cup {c} ELSE wire
         /\ pcC' = [pcC EXCEPT ![c] = IF ok THEN "wait" ELSE "done"]
         /\ res' = [res EXCEPT ![c] = IF ok THEN @ ELSE "writeErr"]
    /\ UNCHANGED <<reconnect, closed, sessions, wsOpen, net, recv,
                   cacheVars, jwsVars, readerVars, reqId, waitCh, got,
                   closerVars, recvrVars, jVars, pushes, histVars>>

\* client.go 288-289: the keep-alive timer fires and a ping is written.
WriterPing(w, ok) ==
    /\ pcW[w] = "select"
    /\ ok \in WriteResults
    /\ SetW(w, AfterWrite(ok))
    /\ UNCHANGED <<reconnect, closed, sessions, sockVars, send, recv,
                   cacheVars, jwsVars, readerVars, callerVars, closerVars,
                   recvrVars, jVars, pushes, histVars>>

\* client.go 502-504: close() returns at once when the flag is set, and the
\* Writer returns.
WriterCloseCheck(w) ==
    /\ pcW[w] = "close"
    /\ SetW(w, IF IsClosed THEN "done" ELSE "closeSet")
    /\ UNCHANGED <<reconnect, closed, sessions, sockVars, send, recv,
                   cacheVars, jwsVars, readerVars, callerVars, closerVars,
                   recvrVars, jVars, pushes, histVars>>

\* client.go 506: the flag is set; Close() follows.
WriterCloseSet(w) ==
    /\ pcW[w] = "closeSet"
    /\ closed' = 1
    /\ SetW(w, "closeSend")
    /\ UNCHANGED <<reconnect, sessions, sockVars, send, recv, cacheVars,
                   jwsVars, readerVars, callerVars, closerVars, recvrVars,
                   jVars, pushes, histVars>>

\* client.go 498: c.ws.Close(), after Close()'s send on closewriter; the
\* Writer returns.
WriterWsClose(w) ==
    /\ pcW[w] = "wsClose"
    /\ wsOpen' = FALSE
    /\ SetW(w, "done")
    /\ UNCHANGED <<reconnect, closed, sessions, net, wire, send, recv,
                   cacheVars, jwsVars, readerVars, callerVars, closerVars,
                   recvrVars, jVars, pushes, histVars>>

(* ---------------------------- Send callers ---------------------------- *)

SetC(c, loc) == pcC' = [pcC EXCEPT ![c] = loc]

\* A Send that does not look at the flag.
SendChecksNothing == FALSE

\* client.go 300-303: Send's own check of the flag.
SendChecks == IsClosed

\* client.go 300-305: Send(m) with m.Id = id.
CallSend(c, id) ==
    /\ pcC[c] = "idle"
    /\ reqId' = [reqId EXCEPT ![c] = id]
    /\ IF SendChecks
       THEN SetC(c, "done") /\ res' = [res EXCEPT ![c] = "closed"]
       ELSE SetC(c, "request") /\ res' = res
    /\ UNCHANGED <<reconnect, closed, sessions, sockVars, send, recv,
                   cacheVars, jwsVars, readerVars, pcW, waitCh, got,
                   closerVars, recvrVars, jVars, pushes, histVars>>

\* client.go 406-414: request() checks the flag again.
CallRequest(c) ==
    /\ pcC[c] = "request"
    /\ IF IsClosed
       THEN SetC(c, "done") /\ res' = [res EXCEPT ![c] = "closed"]
       ELSE SetC(c, "register") /\ res' = res
    /\ UNCHANGED <<reconnect, closed, sessions, sockVars, send, recv,
                   cacheVars, jwsVars, readerVars, pcW, reqId, waitCh, got,
                   closerVars, recvrVars, jVars, pushes, histVars>>

\* client.go 416-417, request_cache.go 34-38: a new channel is registered
\* under the id, replacing any other.
CallRegister(c) ==
    /\ pcC[c] = "register"
    /\ ~muHeld
    /\ requests' = [requests EXCEPT ![reqId[c]] = c]
    /\ chans' = [chans EXCEPT ![c] = <<>>]
    /\ SetC(c, "enqueue")
    /\ UNCHANGED <<reconnect, closed, sessions, sockVars, send, recv,
                   jwsVars, readerVars, pcW, reqId, waitCh, res, got,
                   closerVars, recvrVars, jVars, pushes, histVars>>

\* client.go 418: c.send <- &r, which blocks while the queue is full; the
\* caller then blocks on r.response (420).
CallEnqueue(c) ==
    /\ pcC[c] = "enqueue"
    /\ Len(send) < SendCap
    /\ send' = Append(send, c)
    /\ SetC(c, "response")
    /\ UNCHANGED <<reconnect, closed, sessions, sockVars, recv, cacheVars,
                   jwsVars, readerVars, pcW, reqId, waitCh, res, got,
                   closerVars, recvrVars, jVars, pushes, histVars>>

\* request_cache.go 42-44: Wait reads the channel registered under the id.
CallWaitGet(c) ==
    /\ pcC[c] = "wait"
    /\ ~muHeld
    /\ waitCh' = [waitCh EXCEPT ![c] = requests[reqId[c]]]
    /\ SetC(c, "select")
    /\ UNCHANGED <<reconnect, closed, sessions, sockVars, send, recv,
                   cacheVars, jwsVars, readerVars, pcW, reqId, res, got,
                   closerVars, recvrVars, jVars, pushes, histVars>>

\* client.go 310-320: what Send returns for the response it was resolved by.
SendResult(f) == IF f.type = "ERR" THEN "error" ELSE "ok"

\* request_cache.go 53-54: the response arrives on the channel.
CallWaitReceive(c) ==
    /\ pcC[c] = "select"
    /\ waitCh[c] # None
    /\ chans[waitCh[c]] # <<>>
    /\ got' = [got EXCEPT ![c] = Head(chans[waitCh[c]])]
    /\ res' = [res EXCEPT ![c] = SendResult(Head(chans[waitCh[c]]))]
    /\ chans' = [chans EXCEPT ![waitCh[c]] = <<>>]
    /\ SetC(c, "delete")
    /\ UNCHANGED <<reconnect, closed, sessions, sockVars, send, recv,
                   requests, jwsVars, readerVars, pcW, reqId, waitCh,
                   closerVars, recvrVars, jVars, pushes, histVars>>

\* request_cache.go 55-56: the timeout elapses first.
CallWaitTimeout(c) ==
    /\ pcC[c] = "select"
    /\ res' = [res EXCEPT ![c] = "timeout"]
    /\ SetC(c, "delete")
    /\ UNCHANGED <<reconnect, closed, sessions, sockVars, send, recv,
                   cacheVars, jwsVars, readerVars, pcW, reqId, waitCh, got,
                   closerVars, recvrVars, jVars, pushes, histVars>>

\* A Wait that leaves the entry in the table.
DeletedNot(c) == requests[reqId[c]]

\* request_cache.go 48: delete(rc.requests, reqID) leaves no entry.
Deleted(c) == None

\* request_cache.go 46-50: the deferred delete of the id's entry.
CallWaitDelete(c) ==
    /\ pcC[c] = "delete"
    /\ ~muHeld
    /\ requests' = [requests EXCEPT ![reqId[c]] = Deleted(c)]
    /\ SetC(c, "done")
    /\ UNCHANGED <<reconnect, closed, sessions, sockVars, send, recv,
                   chans, jwsVars, readerVars, pcW, reqId, waitCh, res, got,
                   closerVars, recvrVars, jVars, pushes, histVars>>

(* --------------------------- the direct table ------------------------- *)

\* A channel no goroutine refers to: it is in no entry of the table and no
\* Wait is selecting on it.
Fresh(h) ==
    /\ \A i \in Ids : requests[i] # h
    /\ \A c \in Callers : pcC[c] = "select" => waitCh[c] # h

\* request_cache.go 36: make(chan proto.Message, 1).
MakeChan(id) == CHOOSE h \in Callers : Fresh(h) /\ \A g \in Callers : Fresh(g) => h <= g

\* request_cache.go 34-38: Register(id), called on the table by itself.
CacheRegister(id) ==
    /\ ~muHeld
    /\ \E h \in Callers : Fresh(h)
    /\ requests' = [requests EXCEPT ![id] = MakeChan(id)]
    /\ chans' = [chans EXCEPT ![MakeChan(id)] = <<>>]
    /\ UNCHANGED <<reconnect, closed, sessions, sockVars, send, recv,
                   jwsVars, readerVars, pcW, callerVars, closerVars,
                   recvrVars, jVars, pushes, histVars>>

\* request_cache.go 41: Wait(id, timeout), called on the table by itself.
AwaitCall(c, id) ==
    /\ pcC[c] = "idle"
    /\ reqId' = [reqId EXCEPT ![c] = id]
    /\ SetC(c, "wait")
    /\ UNCHANGED <<reconnect, closed, sessions, sockVars, send, recv,
                   cacheVars, jwsVars, readerVars, pcW, waitCh, res, got,
                   closerVars, recvrVars, jVars, pushes, histVars>>

\* The server sends an ACK or an ERR under an id of its choice, counted with
\* its pushes; the Reader resolves the id with it (client.go 262).
ServerNotify(t, id) ==
    /\ wsOpen
    /\ pushes < MaxPush
    /\ Len(net) < MaxNet
    /\ net' = Append(net, Notification(t, id, None))
    /\ pushes' = pushes + 1
    /\ UNCHANGED <<reconnect, closed, sessions, wsOpen, wire, send, recv,
                   cacheVars, jwsVars, readerVars, pcW, callerVars,
                   closerVars, recvrVars, jVars, histVars>>

(* ------------------------------- Close -------------------------------- *)

\* client.go 495-496: the application calls Close(), which sends on
\* closewriter.
CloseCall ==
    /\ pcX = "idle"
    /\ closes < MaxCloses
    /\ pcX' = "send"
    /\ UNCHANGED <<reconnect, closed, sessions, sockVars, send, recv,
                   cacheVars, jwsVars, readerVars, pcW, callerVars, closes,
                   recvrVars, jVars, pushes, histVars>>

\* client.go 497-499: c.ws.Close(), and Close() returns.
CloseWsClose ==
    /\ pcX = "wsClose"
    /\ wsOpen' = FALSE
    /\ closes' = closes + 1
    /\ pcX' = "idle"
    /\ UNCHANGED <<reconnect, closed, sessions, net, wire, send, recv,
                   cacheVars, jwsVars, readerVars, pcW, callerVars,
                   recvrVars, jVars, pushes, histVars>>

(* ------------------------------ Receive ------------------------------- *)

\* client.go 324-326: the application calls Receive().
ReceiveCall ==
    /\ pcV \in {"idle", "err"}
    /\ pcV' = "wait"
    /\ UNCHANGED <<reconnect, closed, sessions, sockVars, send, recv,
                   cacheVars, jwsVars, readerVars, pcW, callerVars,
                   closerVars, received, jVars, pushes, histVars>>

\* client.go 327-328: a message is taken from the inbox and returned.
ReceiveMessage ==
    /\ pcV = "wait"
    /\ recv # <<>>
    /\ received' = Append(received, Head(recv))
    /\ recv' = Tail(recv)
    /\ pcV' = "idle"
    /\ UNCHANGED <<reconnect, closed, sessions, sockVars, send, cacheVars,
                   jwsVars, readerVars, pcW, callerVars, closerVars, jVars,
                   pushes, histVars>>

\* A poll that returns the closed error whatever the flag.
ReceivePollFails(isClosed) == "err"

\* client.go 329-332: what the poll does with the flag it reads: return the
\* closed error, or go round the loop.
ReceivePoll(isClosed) == IF isClosed THEN "err" ELSE "wait"

\* client.go 329-332: the poll interval elapses.
ReceiveTimeout ==
    /\ pcV = "wait"
    /\ pcV' = ReceivePoll(IsClosed)
    /\ UNCHANGED <<reconnect, closed, sessions, sockVars, send, recv,
                   cacheVars, jwsVars, readerVars, pcW, callerVars,
                   closerVars, received, jVars, pushes, histVars>>

(* ----------------------------- JWS waiter ----------------------------- *)

\* client.go 400-403: JWSRegister(id) makes a channel under the id in the
\* nested table.
JwsRegister ==
    /\ pcJ = "idle"
    /\ ~jmuHeld
    /\ jwsrequests' = jwsrequests \cup {JwsId}
    /\ jchan' = <<>>
    /\ pcJ' = "registered"
    /\ UNCHANGED <<reconnect, closed, sessions, sockVars, send, recv,
                   cacheVars, readerVars, pcW, callerVars, closerVars,
                   recvrVars, jres, pushes, histVars>>

\* client.go 395-398: JWSResponse(id, timeout) reads the channel.
JwsWaitGet ==
    /\ pcJ = "registered"
    /\ ~jmuHeld
    /\ pcJ' = "select"
    /\ UNCHANGED <<reconnect, closed, sessions, sockVars, send, recv,
                   cacheVars, jwsVars, readerVars, pcW, callerVars,
                   closerVars, recvrVars, jres, pushes, histVars>>

\* waitJWS: the message arrives on the channel.
JwsWaitReceive ==
    /\ pcJ = "select"
    /\ jchan # <<>>
    /\ jres' = Head(jchan).id
    /\ jchan' = <<>>
    /\ pcJ' = "delete"
    /\ UNCHANGED <<reconnect, closed, sessions, sockVars, send, recv,
                   cacheVars, jwsrequests, readerVars, pcW, callerVars,
                   closerVars, recvrVars, pushes, histVars>>

\* waitJWS: the timeout elapses first.
JwsWaitTimeout ==
    /\ pcJ = "select"
    /\ jres' = -1
    /\ pcJ' = "delete"
    /\ UNCHANGED <<reconnect, closed, sessions, sockVars, send, recv,
                   cacheVars, jwsVars, readerVars, pcW, callerVars,
                   closerVars, recvrVars, pushes, histVars>>

\* waitJWS: the id's entry is removed on either outcome.
JwsWaitDelete ==
    /\ pcJ = "delete"
    /\ ~jmuHeld
    /\ jwsrequests' = jwsrequests \ {JwsId}
    /\ pcJ' = "done"
    /\ UNCHANGED <<reconnect, closed, sessions, sockVars, send, recv,
                   cacheVars, jchan, readerVars, pcW, callerVars,
                   closerVars, recvrVars, jres, pushes, histVars>>

(* ------------------------------- server ------------------------------- *)

\* The server answers a request it has read, that of caller c, with an ACK or
\* an ERR under the request's id.
ServerReply(c, t) ==
    /\ wsOpen
    /\ c \in wire
    /\ Len(net) < MaxNet
    /\ net' = Append(net, Notification(t, reqId[c], c))
    /\ wire' = wire \ {c}
    /\ UNCHANGED <<reconnect, closed, sessions, wsOpen, send, recv,
                   cacheVars, jwsVars, readerVars, pcW, callerVars,
                   closerVars, recvrVars, jVars, pushes, histVars>>

\* The server pushes a MSG; the frames are numbered in the order sent.
ServerPush(ct) ==
    /\ wsOpen
    /\ pushes < MaxPush
    /\ Len(net) < MaxNet
    /\ net' = Append(net, Message(pushes + 1, ct))
    /\ pushes' = pushes + 1
    /\ UNCHANGED <<reconnect, closed, sessions, wsOpen, wire, send, recv,
                   cacheVars, jwsVars, readerVars, pcW, callerVars,
                   closerVars, recvrVars, jVars, histVars>>

\* The server answers the AUTH it has read; it accepts MaxSessions sessions.
ServerAuth(t) ==
    /\ wsOpen
    /\ \E s \in Sessions : pcR[s] = "authRead"
    /\ net = <<>>
    /\ t = "ACK" => sessions < MaxSessions
    /\ net' = <<Notification(t, None, None)>>
    /\ UNCHANGED <<reconnect, closed, sessions, wsOpen, wire, send, recv,
                   cacheVars, jwsVars, readerVars, pcW, callerVars,
                   closerVars, recvrVars, jVars, pushes, histVars>>

\* The server sends a frame the Reader has no use for, counted with its
\* pushes.
ServerJunk(k) ==
    /\ wsOpen
    /\ pushes < MaxPush
    /\ Len(net) < MaxNet
    /\ net' = Append(net, Junk(k))
    /\ pushes' = pushes + 1
    /\ UNCHANGED <<reconnect, closed, sessions, wsOpen, wire, send, recv,
                   cacheVars, jwsVars, readerVars, pcW, callerVars,
                   closerVars, recvrVars, jVars, histVars>>

(* ---------------------------- specifications -------------------------- *)

\* The Reader's steps on the frames it reads.
ReaderFrames(s) ==
    \/ ReaderTop(s)
    \/ ReaderNotification(s)
    \/ ReaderCacheSend(s)
    \/ ReaderMessage(s)
    \/ ReaderJwsSend(s)
    \/ ReaderRecvPut(s)

\* The Reader's closure path and tryReconnect.
ReaderCloses(s) ==
    \/ ReaderReadFails(s)
    \/ ReaderCloseCheck(s)
    \/ ReaderCloseSet(s)
    \/ ReaderWsClose(s)
    \/ ReaderSetup(s)
    \/ ReaderDial(s)
    \/ ReaderAuthWrite(s)
    \/ ReaderAuth(s)
    \/ ReaderFinal(s)

\* The Writer while every write succeeds.
WriterWrites(w) ==
    \/ WriterTop(w)
    \/ WriterRequest(w, TRUE)
    \/ WriterPing(w, TRUE)

Writer(w) ==
    \/ WriterTop(w)
    \/ \E ok \in BOOLEAN : WriterCloseFromCloser(w, ok)
    \/ \E r \in Sessions, ok \in BOOLEAN : WriterCloseFromReader(w, r, ok)
    \/ \E v \in Sessions, ok \in BOOLEAN : WriterCloseFromWriter(w, v, ok)
    \/ \E ok \in BOOLEAN : WriterRequest(w, ok)
    \/ \E ok \in BOOLEAN : WriterPing(w, ok)
    \/ WriterCloseCheck(w)
    \/ WriterCloseSet(w)
    \/ WriterWsClose(w)

\* A caller of Send whose message id is one of ids.
Caller(c, ids) ==
    \/ \E id \in ids : CallSend(c, id)
    \/ CallRequest(c)
    \/ CallRegister(c)
    \/ CallEnqueue(c)
    \/ CallWaitGet(c)
    \/ CallWaitReceive(c)
    \/ CallWaitTimeout(c)
    \/ CallWaitDelete(c)

Closer == CloseCall \/ CloseWsClose

Receiver == ReceiveCall \/ ReceiveMessage \/ ReceiveTimeout

JwsWaiter ==
    \/ JwsRegister
    \/ JwsWaitGet
    \/ JwsWaitReceive
    \/ JwsWaitTimeout
    \/ JwsWaitDelete

Replies == \E c \in Callers, t \in {"ACK", "ERR"} : ServerReply(c, t)

Handshakes == \E t \in AuthReplies : ServerAuth(t)

Pushes == \E ct \in CipherTexts : ServerPush(ct)

\* The Reader on a session that carries only Notifications.
ReaderReplies(s) ==
    \/ ReaderTop(s)
    \/ ReaderNotification(s)
    \/ ReaderCacheSend(s)

\* The Reader on a session that carries only pushed messages.
ReaderPushes(s) ==
    \/ ReaderTop(s)
    \/ ReaderMessage(s)
    \/ ReaderJwsSend(s)
    \/ ReaderRecvPut(s)
    \/ ReaderJunk(s)

\* Concurrent Send calls on a session that stays up.
NextSend ==
    \/ \E s \in Sessions : ReaderReplies(s)
    \/ \E w \in Sessions : WriterWrites(w)
    \/ \E c \in Callers : Caller(c, Ids)
    \/ Replies

SpecSend == Init /\ [][NextSend]_vars

\* Messages pushed by the server on a session that stays up.
NextInbox ==
    \/ \E s \in Sessions : ReaderPushes(s)
    \/ Receiver
    \/ JwsWaiter
    \/ Pushes
    \/ \E k \in JunkTypes : ServerJunk(k)

SpecInbox == Init /\ [][NextInbox]_vars



\* The Writer with no caller of Send and none of Close().
WriterAlone(w) ==
    \/ WriterTop(w)
    \/ \E r \in Sessions, ok \in BOOLEAN : WriterCloseFromReader(w, r, ok)
    \/ \E v \in Sessions, ok \in BOOLEAN : WriterCloseFromWriter(w, v, ok)
    \/ \E ok \in BOOLEAN : WriterPing(w, ok)
    \/ WriterCloseCheck(w)
    \/ WriterCloseSet(w)
    \/ WriterWsClose(w)

\* The life of the client: failures, Close() and reconnects.
Next ==
    \/ \E s \in Sessions : ReaderTop(s) \/ ReaderCloses(s)
    \/ \E w \in Sessions : WriterAlone(w)
    \/ \E w \in Sessions, ok \in BOOLEAN : WriterCloseFromCloser(w, ok)
    \/ Closer
    \/ Handshakes

Spec == Init /\ [][Next]_vars

\* A caller of Send on a session that fails and reconnects.
NextRequest ==
    \/ \E s \in Sessions :
         ReaderTop(s) \/ ReaderNotification(s) \/ ReaderCloses(s)
    \/ \E w \in Sessions : WriterAlone(w)
    \/ \E w \in Sessions, ok \in BOOLEAN : WriterRequest(w, ok)
    \/ Caller(1, {1})
    \/ Replies
    \/ Handshakes

SpecRequest == Init /\ [][NextRequest]_vars

\* Receive() on a session that fails and reconnects.
NextReceive ==
    \/ \E s \in Sessions :
         ReaderTop(s) \/ ReaderMessage(s) \/ ReaderRecvPut(s) \/ ReaderCloses(s)
    \/ \E w \in Sessions : WriterAlone(w)
    \/ Receiver
    \/ ServerPush(NoCt)
    \/ Handshakes

\* The Reader's steps that are its own to take: all but the failure of a
\* read, which is the network's.
ReaderRuns(s) ==
    \/ ReaderTop(s)
    \/ ReaderMessage(s)
    \/ ReaderRecvPut(s)
    \/ ReaderCloseCheck(s)
    \/ ReaderCloseSet(s)
    \/ ReaderWsClose(s)
    \/ ReaderSetup(s)
    \/ ReaderDial(s)
    \/ ReaderAuthWrite(s)
    \/ ReaderAuth(s)
    \/ ReaderFinal(s)

\* The goroutines are scheduled and the timers fire; nothing is assumed of
\* the server or of when a read fails.
SpecReceive ==
    /\ Init
    /\ [][NextReceive]_vars
    /\ WF_vars(Receiver)
    /\ \A s \in Sessions : WF_vars(ReaderRuns(s))
    /\ \A w \in Sessions : WF_vars(WriterAlone(w))

\* A goroutine that waits on the direct table for one of the ids.
Awaiter(c) ==
    \/ \E id \in Ids : AwaitCall(c, id)
    \/ CallWaitGet(c)
    \/ CallWaitReceive(c)
    \/ CallWaitTimeout(c)
    \/ CallWaitDelete(c)

\* The direct table by itself: registers, waits, and the Reader resolving
\* with whatever the server sends.
NextCache ==
    \/ \E s \in Sessions : ReaderReplies(s)
    \/ \E id \in Ids : CacheRegister(id)
    \/ \E c \in Callers : Awaiter(c)
    \/ \E t \in {"ACK", "ERR"}, id \in Ids : ServerNotify(t, id)

SpecCache == Init /\ [][NextCache]_vars

\* The Reader on a session that carries replies and pushed messages.
ReaderBusy(s) ==
    \/ ReaderTop(s)
    \/ ReaderNotification(s)
    \/ ReaderMessage(s)
    \/ ReaderRecvPut(s)

\* The steps of request() and of Wait that are the caller's own to take: all
\* but the firing of Wait's timer.
CallerRuns(c) ==
    \/ CallRequest(c)
    \/ CallRegister(c)
    \/ CallEnqueue(c)
    \/ CallWaitGet(c)
    \/ CallWaitReceive(c)
    \/ CallWaitDelete(c)

\* TestClientBusy: the server pushes more messages than the inbox holds, a
\* consumer calls Receive() in a loop, and one request is made, which the
\* server answers with an ACK.
NextBusy ==
    \/ \E s \in Sessions : ReaderBusy(s)
    \/ \E w \in Sessions : WriterWrites(w)
    \/ Caller(1, {1})
    \/ Receiver
    \/ ServerPush(NoCt)
    \/ ServerReply(1, "ACK")

\* The goroutines are scheduled, the Writer's select takes a queued request
\* when it is offered one again and again, and the server answers what it
\* has read.  Nothing is assumed of Wait's timer.
SpecBusy ==
    /\ Init
    /\ [][NextBusy]_vars
    /\ \A s \in Sessions : WF_vars(ReaderBusy(s))
    /\ \A w \in Sessions : WF_vars(WriterWrites(w))
    /\ \A w \in Sessions : SF_vars(WriterRequest(w, TRUE))
    /\ WF_vars(CallerRuns(1))
    /\ WF_vars(Receiver)
    /\ WF_vars(ServerReply(1, "ACK"))

(* ------------------------------ properties ---------------------------- *)

\* Both loops of every session have returned, or were never started: no
\* goroutine is left that takes from closewriter or from c.send, and none
\* that could start one.
LoopsGone ==
    \A s \in Sessions :
        pcR[s] \in {"none", "done"} /\ pcW[s] \in {"none", "done"}

\* Once the loops are gone they stay gone.
LoopsGoneForGood == [][LoopsGone => LoopsGone']_vars

\* The callers that have called Send did so with pairwise distinct ids.
DistinctIds ==
    \A c, d \in Callers :
        (c # d /\ reqId[c] # None /\ reqId[d] # None) => reqId[c] # reqId[d]

\* C1: when the message ids of the concurrent Send calls are pairwise
\* distinct, a Send that wait() resolved was resolved by the Notification the
\* server sent in answer to its own request, under its own id, and returns
\* that Notification's outcome.
C1_OwnNotification ==
    DistinctIds =>
        \A c \in Callers :
            got[c] # NoFrame =>
                /\ got[c].req = c
                /\ got[c].id = reqId[c]
                /\ res[c] = SendResult(got[c])

\* C1's case: two Sends with distinct ids, both resolved, one by an ACK and
\* one by an ERR.
C1_Witness ==
    /\ reqId[1] # reqId[2]
    /\ pcC[1] = "done" /\ pcC[2] = "done"
    /\ got[1].type = "ERR" /\ got[2].type = "ACK"

\* C2: a second Close(), called when a first Close() has returned and the
\* loops have wound down, is not left blocked on closewriter with nobody to
\* take from it.
C2_SecondCloseReturns ==
    ~(pcX = "send" /\ closes >= 1 /\ LoopsGone)

\* C3: when tryReconnect has used up all maxretries attempts without a
\* successful handshake, the closed flag is still set.
C3_ExhaustedStaysClosed ==
    \A s \in Sessions :
        (pcR[s] = "done" /\ retries = MaxRetries) => IsClosed

\* C4: a Reader whose read failed with a timeout, with auto-reconnect
\* enabled, is never left blocked in close() between setting the flag and
\* tryReconnect, with no Writer left to take from closewriter.
C4_ReaderReachesReconnect ==
    \A s \in Sessions :
        ~(/\ reconnect
          /\ rerr = "timeout"
          /\ pcR[s] = "closeSend"
          /\ \A w \in Sessions : pcW[w] \in {"none", "done"}
          /\ \A r \in Sessions \ {s} : pcR[r] \in {"none", "done"})

\* The frames on the way to Receive(): returned, in the inbox, or held by a
\* Reader blocked on its way to the inbox.
Held ==
    IF \E s \in Sessions : pcR[s] \in {"jwsSend", "recvPut"}
    THEN <<rframe>>
    ELSE <<>>

InboxPath == received \o recv \o Held

FrameIds(q) == {q[i].id : i \in 1..Len(q)}

\* C5: a MSG frame handed to the nested waiter is not also on its way to
\* Receive().
C5_NestedExclusive == nested \cap FrameIds(InboxPath) = {}

Unsolicited(f) == f.id \notin nested

\* C6: the unsolicited MSG frames the Reader has read are, in the order
\* read and each once, the ones Receive() has returned, then the ones in
\* the inbox, then the one a blocked Reader holds.
C6_InboxInOrder ==
    SelectSeq(InboxPath, Unsolicited) = SelectSeq(arrived, Unsolicited)

\* C6's case: the inbox is full of an unsolicited message and the Reader is
\* blocked holding the next one.
C6_Witness ==
    /\ \E s \in Sessions : pcR[s] = "recvPut"
    /\ Len(recv) = RecvCap
    /\ Unsolicited(rframe)
    /\ \A i \in 1..Len(recv) : Unsolicited(recv[i])

\* C7: a caller that has queued its request is never left blocked on the
\* write acknowledgment with both loops gone.
C7_CallerReturns ==
    \A c \in Callers : ~(pcC[c] = "response" /\ LoopsGone)

\* C8: when a call of Close() has returned, the closed flag is set.
C8_CloseSetsFlag == closes >= 1 => IsClosed

C10_ClosedReceiveFails ==
    [](pcV = "wait" /\ recv = <<>> /\ LoopsGone => <>(pcV = "err"))

\* What a channel of the table holds was resolved under the id of its entry.
EntriesHoldOwn ==
    \A i \in Ids :
        (requests[i] # None /\ chans[requests[i]] # <<>>) =>
            Head(chans[requests[i]]).id = i

C12_TimeoutRemoves ==
    [][/\ \A c \in Callers :
            (pcC[c] = "delete" /\ pcC'[c] = "done") =>
                requests'[reqId[c]] = None
       /\ \A i \in Ids :
            (requests'[i] # requests[i] /\ requests'[i] # None) =>
                /\ chans'[requests'[i]] = <<>>
                /\ \A c \in Callers :
                     pcC[c] = "select" => waitCh[c] # requests'[i]]_vars

\* C12's case: an await of a registered id timed out, the id was registered
\* again, and a later await got the message resolved under it.
C12_Witness ==
    /\ pcC[1] = "done" /\ res[1] = "timeout" /\ waitCh[1] # None
    /\ pcC[2] = "done" /\ reqId[2] = reqId[1] /\ got[2] # NoFrame

\* C13: the Reader's step on a frame it has no use for takes it back to the
\* top of its loop and leaves both tables and the inbox as they were.
C13_JunkDropped ==
    [][\A s \in Sessions :
         (/\ pcR[s] = "read" /\ pcR'[s] # "read"
          /\ net # <<>> /\ net' = Tail(net)
          /\ Head(net).type \in JunkTypes) =>
             /\ pcR'[s] = "top"
             /\ UNCHANGED <<requests, chans, jwsrequests, jchan, recv>>]_vars

C15_OnlyQualifyingRetry ==
    [][\A s \in Sessions :
         (pcR[s] \in {"close", "wsClose"} /\ pcR'[s] = "setup") =>
             rerr \in {"timeout", "abnormal"}]_vars

\* C16: a Reader makes a reconnect attempt only when the client was built
\* with AutoReconnect(true).
C16_OnlyWhenEnabled ==
    \A s \in Sessions :
        pcR[s] \in {"setup", "dial", "auth", "authRead", "final"} =>
            option = "true"

\* C17: a Writer whose write failed is never left blocked in its own
\* close(), on the send on closewriter, with no other goroutine left that
\* could take from closewriter or start a Writer.
C17_WriterTerminates ==
    \A w \in Sessions :
        ~(/\ pcW[w] = "closeSend"
          /\ IsClosed
          /\ \A v \in Sessions \ {w} : pcW[v] \in {"none", "done"}
          /\ \A s \in Sessions : pcR[s] \in {"none", "done"})

\* C18: no goroutine is blocked on a waiter's channel while it holds the
\* lock of the direct table.
C18_LockNeverHeldBlocked ==
    \A s \in Sessions :
        ~(pcR[s] = "cacheSend" /\ muHeld /\ SendBlocks(rframe.id))

\* The sessions whose Reader is in its loop, and those whose Writer is.
ReadersInLoop ==
    {s \in Sessions : pcR[s] \in {"top", "read", "cacheSend", "jwsSend", "recvPut"}}

WritersInLoop == {w \in Sessions : pcW[w] \in {"top", "select"}}

\* C19: at most one Reader and at most one Writer are in their loops, and
\* the one that is belongs to the latest session.
C19_OneSessionLive ==
    /\ ReadersInLoop \subseteq {sessions}
    /\ WritersInLoop \subseteq {sessions}

\* A step in which authenticate() takes an ACK from the socket.
AckRead ==
    \E s \in Sessions :
        /\ pcR[s] = "authRead" /\ pcR'[s] = "final"
        /\ net # <<>> /\ Head(net).type = "ACK" /\ net' = Tail(net)

\* A step in which a Writer's write of a frame on c.ws succeeds.
WriterWrote == \E w \in Sessions : pcW[w] = "select" /\ pcW'[w] = "top"

\* Loops are started only by a step that reads an ACK in the handshake.
LoopsStartOnAck ==
    [][(\E n \in Sessions : pcR'[n] # pcR[n] /\ pcR[n] = "none") => AckRead]_vars

\* C20: a Reader and a Writer are started only by the step in which the one
\* reply to AUTH is read and is an ACK, and between the write of AUTH and that
\* step no other frame is written on the socket.
C20_HandshakeSynchronous ==
    [][/\ (\E n \in Sessions :
             (pcR'[n] # pcR[n] /\ pcR[n] = "none") \/
             (pcW'[n] # pcW[n] /\ pcW[n] = "none")) => AckRead
       /\ (\E s \in Sessions : pcR[s] = "authRead") => ~WriterWrote]_vars

\* C21: when a call of Send has returned, with whatever outcome, the direct
\* table holds no entry made by that call.
C21_NoWaiterOutlives ==
    \A c \in Callers :
        pcC[c] = "done" => \A i \in Ids : requests[i] # c

\* The Reader of session s is in an attempt of tryReconnect's loop.
Attempting(s) == pcR[s] \in {"setup", "dial", "auth", "authRead"}

\* C22: an attempt is begun only while fewer than maxretries attempts have
\* failed for this failure; an attempt succeeds only by the step that reads
\* the ACK of its own AUTH, after setup() and connect(); and a Reader whose
\* attempt has succeeded returns and begins no other.
C22_BoundedAttempts ==
    [][\A s \in Sessions :
         /\ (pcR'[s] = "setup" /\ pcR[s] # "setup") =>
               /\ retries' < MaxRetries
               /\ pcR[s] \in {"close", "wsClose"} \/ Attempting(s)
         /\ (pcR'[s] = "final" /\ pcR[s] # "final") =>
               pcR[s] = "authRead" /\ AckRead
         /\ pcR[s] = "final" => pcR'[s] \in {"final", "done"}
         /\ pcR[s] = "done" => pcR'[s] = "done"]_vars

\* C22's case: the last of the maxretries attempts has succeeded, after all
\* the others failed.
C22_Witness ==
    \E s \in Sessions : pcR[s] = "final" /\ retries = MaxRetries - 1

====
